---- MODULE Spec2Model ----
(***************************************************************************)
(* AwSW Workshop Uploader: the callback/polling bridge of my_steamworks.rs *)
(* (interest counter, dispatcher thread, one-shot result channels) and the *)
(* upload workflow of main.rs (Model::update), as one state machine.       *)
(*                                                                         *)
(* Threads: the UI thread runs Model::update; executor tasks run the three *)
(* async operations of WorkshopClient; the "SingleClientExecutor" thread   *)
(* runs steamworks_worker and, inside run_callbacks, the native callbacks. *)
(* Each action is one atomic step of one thread.                           *)
(***************************************************************************)
EXTENDS Integers, Sequences, FiniteSets, TLC

(***************************************************************************)
(* Bounds of the model.                                                    *)
(***************************************************************************)
\* Operations (Command::perform) launched in one run.
MaxOps == 2

\* Largest item id whose text form is parsed back.
MaxId == 120

\* usize::MAX of the AtomicUsize counter, scaled to TLC's 32-bit integers:
\* fetch_sub on 0 wraps to it, fetch_add on it wraps to 0.
UsizeMax == 2147483647

(***************************************************************************)
(* Values.                                                                 *)
(***************************************************************************)
\* Option<T>
None == <<>>
Some(x) == <<x>>
IsSome(o) == o # <<>>
Unwrap(o) == o[1]

\* Result<T, E>
Ok(x) == <<"Ok", x>>
Err(e) == <<"Err", e>>
IsOk(r) == r[1] = "Ok"
IsErr(r) == r[1] = "Err"
Payload(r) == r[2]

\* SteamError values: a native failure, and the two the session produces.
NativeErrors == {"Fail"}
SteamErrors == NativeErrors \cup {"NoMatch", "Cancelled"}

\* PublishedFileId values the platform hands out or echoes.
NativeIds == {7, 8}

\* Characters of the id text field; a text is a sequence of them.
Digits == <<"0", "1", "2", "3", "4", "5", "6", "7", "8", "9">>
DigitChars == {Digits[i] : i \in 1..10}
DigitValue(c) == (CHOOSE i \in 1..10 : Digits[i] = c) - 1

\* Texts the user types into the id field.
TypedTexts == {<<>>, <<"7">>, <<"x">>}

\* Names, paths and change notes the user types or picks.
Names == {"", "n"}
Notes == {"", "c"}
Paths == {"", "f", "d", "m"}

\* The file system, unchanged during a run: "f" is a file, "d" a directory,
\* "m" does not exist, and the empty path does not exist.
PathExists(p) == p \in {"f", "d"}
PathIsFile(p) == p = "f"

(***************************************************************************)
(* str::parse::<u64> and u64::to_string.                                   *)
(***************************************************************************)
RECURSIVE DigitsValue(_, _)
DigitsValue(s, acc) ==
    IF s = <<>> THEN Ok(acc)
    ELSE IF Head(s) \notin DigitChars THEN Err("InvalidDigit")
    ELSE DigitsValue(Tail(s), acc * 10 + DigitValue(Head(s)))

\* Texts of the model are short, so PosOverflow cannot happen.
ParseU64(s) ==
    IF s = <<>> THEN Err("Empty")
    ELSE LET body == IF Head(s) = "+" THEN Tail(s) ELSE s
         IN IF body = <<>> THEN Err("InvalidDigit") ELSE DigitsValue(body, 0)

\* Mutant of U64ToString: every id is written as the empty text.
U64ToStringBlank(n) == <<>>
RECURSIVE U64ToString(_)
U64ToString(n) ==
    IF n < 10 THEN <<Digits[n + 1]>>
    ELSE U64ToString(n \div 10) \o <<Digits[(n % 10) + 1]>>

(***************************************************************************)
(* item_info.rs                                                            *)
(***************************************************************************)
FileField(p) == [path |-> p]

ItemInfoStateDefault ==
    [name |-> "", preview_image |-> FileField(""),
     target_folder |-> FileField(""), change_notes |-> ""]

\* ItemInfoState::update. pick is the outcome of the file dialog of a Browse
\* message: Some(path), or None when it was dismissed or failed.
ItemInfoMessages ==
    [type : {"EditName"}, value : Names]
    \cup [type : {"EditPreviewImage", "EditTargetFolder"}, value : Paths]
    \cup [type : {"BrowsePreviewImage", "BrowseTargetFolder"}, value : {""}]
    \cup [type : {"EditChangeNotes"}, value : Notes]

ItemInfoStateUpdate(s, m, pick) ==
    CASE m.type = "EditName" -> [s EXCEPT !.name = m.value]
      [] m.type = "EditPreviewImage" -> [s EXCEPT !.preview_image = FileField(m.value)]
      [] m.type = "EditTargetFolder" -> [s EXCEPT !.target_folder = FileField(m.value)]
      [] m.type = "BrowsePreviewImage" ->
            IF IsSome(pick) THEN [s EXCEPT !.preview_image.path = Unwrap(pick)] ELSE s
      [] m.type = "BrowseTargetFolder" ->
            IF IsSome(pick) THEN [s EXCEPT !.target_folder.path = Unwrap(pick)] ELSE s
      [] m.type = "EditChangeNotes" -> [s EXCEPT !.change_notes = m.value]

\* Mutant of ItemInfoStateFrom: the preview image is not carried over.
ItemInfoStateFromNoPreview(info) ==
    [name |-> info.name, preview_image |-> FileField(""),
     target_folder |-> FileField(info.target_folder),
     change_notes |-> info.change_notes]

\* impl From<ItemInfo> for ItemInfoState
ItemInfoStateFrom(info) ==
    [name |-> info.name, preview_image |-> FileField(info.preview_image),
     target_folder |-> FileField(info.target_folder),
     change_notes |-> info.change_notes]

\* impl From<QueryResult> for ItemInfo
ItemInfoFromQuery(q) ==
    [name |-> q.title, preview_image |-> "", target_folder |-> "",
     change_notes |-> ""]

\* impl TryFrom<ItemInfoState> for ItemInfo
ItemInfoTryFrom(s) ==
    LET preview == s.preview_image.path
        target == s.target_folder.path
        preview_field_exists == PathExists(preview)
        has_preview == preview_field_exists /\ PathIsFile(preview)
    IN  IF s.name = "" THEN Err("Name cannot be empty.")
        ELSE IF ~has_preview /\ preview # "" /\ ~preview_field_exists
            THEN Err("Preview image does not exist.")
        ELSE IF ~has_preview /\ preview # ""
            THEN Err("Preview image is not a file.")
        ELSE IF ~PathExists(target) /\ target = ""
            THEN Err("Target folder cannot be empty.")
        ELSE IF ~PathExists(target)
            THEN Err("Target folder does not exist.")
        ELSE Ok([name |-> s.name, preview_image |-> preview,
                 target_folder |-> target, change_notes |-> s.change_notes])

(***************************************************************************)
(* main.rs: ModelState, Message, Command                                   *)
(***************************************************************************)
Initial(text) == [tag |-> "Initial", text |-> text]
ExistingIdSearching(id, err) == [tag |-> "ExistingIdSearching", id |-> id, err |-> err]
ItemForm(maybe_id, draft) == [tag |-> "ItemForm", maybe_id |-> maybe_id, draft |-> draft]
CreatingItem(info) == [tag |-> "CreatingItem", info |-> info]
CreationError(info, err) == [tag |-> "CreationError", info |-> info, err |-> err]
SendingItem(id, info) == [tag |-> "SendingItem", id |-> id, info |-> info]
SendingError(id, info, err) == [tag |-> "SendingError", id |-> id, info |-> info, err |-> err]
\* Mutant of Done: the state names the id after the one uploaded.
DoneNextId(id) == [tag |-> "Done", id |-> id + 1]
Done(id) == [tag |-> "Done", id |-> id]

SetExistingId(text) == [type |-> "SetExistingId", text |-> text]
EditItemData(m) == [type |-> "EditItemData", msg |-> m]
ReceiveFoundItemInfo(info) == [type |-> "ReceiveFoundItemInfo", info |-> info]
ReceiveItemId(id) == [type |-> "ReceiveItemId", id |-> id]
ReceiveSteamError(err) == [type |-> "ReceiveSteamError", err |-> err]
Proceed == [type |-> "Proceed"]
GoBack == [type |-> "GoBack"]
TermsLinkPressed == [type |-> "TermsLinkPressed"]

\* Mutant of receive_item_id: a success is reported as a cancellation.
receive_item_id_drops_id(res) ==
    ReceiveSteamError(IF IsOk(res) THEN "Cancelled" ELSE Payload(res))

\* Message::receive_item_id
receive_item_id(res) ==
    IF IsOk(res) THEN ReceiveItemId(Payload(res)[1])
    ELSE ReceiveSteamError(Payload(res))

\* Message::receive_item_info
receive_item_info(res) ==
    IF IsOk(res) THEN ReceiveFoundItemInfo(Payload(res))
    ELSE ReceiveSteamError(Payload(res))

\* Command<Message>: none, or one future performed on the executor.
CMDN == <<>>
\* Mutant of PerformGetItemInfo: the lookup is launched for another id.
PerformGetItemInfoOther(id) ==
    <<[kind |-> "get_item_info", id |-> Some(id + 1), info |-> None]>>
PerformGetItemInfo(id) == <<[kind |-> "get_item_info", id |-> Some(id), info |-> None]>>
PerformCreateItem == <<[kind |-> "create_item", id |-> None, info |-> None]>>
\* Mutant of PerformSendItem: the change notes are left out of what is sent.
PerformSendItemNoNotes(id, info) ==
    <<[kind |-> "send_item", id |-> Some(id),
       info |-> Some([info EXCEPT !.change_notes = ""])]>>
PerformSendItem(id, info) == <<[kind |-> "send_item", id |-> Some(id), info |-> Some(info)]>>

\* The result of Model::update: the new state, the command it returns, and
\* the url it asked the Steam overlay to open (open_terms / open_url).
\* Mutant of Upd: whatever update decides, a create is launched.
UpdLaunches(st, cmd) == [state |-> st, cmd |-> PerformCreateItem, url |-> None]
Upd(st, cmd) == [state |-> st, cmd |-> cmd, url |-> None]
\* Mutant of UpdUrl: opening a url also restarts the workflow.
UpdUrlRestarts(st, url) == [state |-> Initial(<<>>), cmd |-> CMDN, url |-> Some(url)]
UpdUrl(st, url) == [state |-> st, cmd |-> CMDN, url |-> Some(url)]

\* Mutant of update_to_create_item: the create is launched from the form,
\* without entering CreatingItem.
update_to_create_item_in_form(item_info) ==
    Upd(ItemForm(None, ItemInfoStateFrom(item_info)), PerformCreateItem)

\* Model::update_to_create_item
update_to_create_item(item_info) ==
    Upd(CreatingItem(item_info), PerformCreateItem)

\* Mutant of update_to_send_item: a create is launched for an existing id.
update_to_send_item_creates(item_id, item_info) ==
    Upd(SendingItem(item_id, item_info), PerformCreateItem)

\* Mutant of update_to_send_item: the send is launched without leaving for
\* SendingItem.
update_to_send_item_stays(item_id, item_info) ==
    Upd(CreatingItem(item_info), PerformSendItem(item_id, item_info))

\* Model::update_to_send_item
update_to_send_item(item_id, item_info) ==
    Upd(SendingItem(item_id, item_info), PerformSendItem(item_id, item_info))

\* Model::update. pick is the file-dialog outcome used by a Browse message.
update(st, message, pick) ==
    IF message.type = "TermsLinkPressed" THEN UpdUrl(st, "workshoplegalagreement")
    ELSE CASE st.tag = "Initial" ->
            IF message.type = "SetExistingId" THEN Upd(Initial(message.text), CMDN)
            ELSE IF message.type = "Proceed" THEN
                LET item_id == ParseU64(st.text)
                IN IF IsOk(item_id)
                   THEN Upd(ExistingIdSearching(Payload(item_id), None),
                            PerformGetItemInfo(Payload(item_id)))
                   ELSE Upd(ItemForm(None, ItemInfoStateDefault), CMDN)
            ELSE Upd(st, CMDN)
      [] st.tag = "ExistingIdSearching" ->
            IF message.type = "GoBack" THEN Upd(Initial(U64ToString(st.id)), CMDN)
            ELSE IF message.type = "ReceiveFoundItemInfo"
                THEN Upd(ItemForm(Some(st.id), ItemInfoStateFrom(message.info)), CMDN)
            ELSE IF message.type = "ReceiveSteamError"
                THEN Upd(ExistingIdSearching(st.id, Some(message.err)), CMDN)
            ELSE Upd(st, CMDN)
      [] st.tag = "ItemForm" ->
            IF message.type = "EditItemData"
                THEN Upd(ItemForm(st.maybe_id,
                                  ItemInfoStateUpdate(st.draft, message.msg, pick)), CMDN)
            ELSE IF message.type = "Proceed" THEN
                LET item_info == ItemInfoTryFrom(st.draft)
                IN IF IsOk(item_info)
                   THEN IF IsSome(st.maybe_id)
                        THEN update_to_send_item(Unwrap(st.maybe_id), Payload(item_info))
                        ELSE update_to_create_item(Payload(item_info))
                   ELSE Upd(st, CMDN)
            ELSE IF message.type = "GoBack"
                THEN Upd(Initial(IF IsSome(st.maybe_id)
                                 THEN U64ToString(Unwrap(st.maybe_id)) ELSE <<>>), CMDN)
            ELSE Upd(st, CMDN)
      [] st.tag = "CreatingItem" ->
            IF message.type = "ReceiveItemId"
                THEN update_to_send_item(message.id, st.info)
            ELSE IF message.type = "ReceiveSteamError"
                THEN Upd(CreationError(st.info, message.err), CMDN)
            ELSE Upd(st, CMDN)
      [] st.tag = "CreationError" ->
            IF message.type = "GoBack"
                THEN Upd(ItemForm(None, ItemInfoStateFrom(st.info)), CMDN)
            ELSE Upd(st, CMDN)
      [] st.tag = "SendingItem" ->
            IF message.type = "ReceiveItemId"
                THEN IF message.id # st.id THEN Upd(st, CMDN) ELSE Upd(Done(st.id), CMDN)
            ELSE IF message.type = "ReceiveSteamError"
                THEN Upd(SendingError(st.id, st.info, message.err), CMDN)
            ELSE Upd(st, CMDN)
      [] st.tag = "SendingError" ->
            IF message.type = "GoBack"
                THEN Upd(ItemForm(Some(st.id), ItemInfoStateFrom(st.info)), CMDN)
            ELSE Upd(st, CMDN)
      [] st.tag = "Done" ->
            IF message.type = "Proceed"
                THEN UpdUrl(st, <<"CommunityFilePage", st.id>>)
            ELSE IF message.type = "GoBack" THEN Upd(Initial(<<>>), CMDN)
            ELSE Upd(st, CMDN)

\* The messages the widgets of Model::view can emit in a state: initial_view,
\* edit_item_view and the buttons of the other states. The id text input
\* emits Proceed on submit whatever its text is.
ViewMessages(st) ==
    CASE st.tag = "Initial" ->
            {SetExistingId(t) : t \in TypedTexts} \cup {Proceed}
      [] st.tag = "ExistingIdSearching" -> {GoBack}
      [] st.tag = "ItemForm" ->
            {EditItemData(m) : m \in ItemInfoMessages}
            \cup {TermsLinkPressed, GoBack}
            \cup (IF IsOk(ItemInfoTryFrom(st.draft)) THEN {Proceed} ELSE {})
      [] st.tag = "CreatingItem" -> {}
      [] st.tag = "CreationError" -> {GoBack}
      [] st.tag = "SendingItem" -> {}
      [] st.tag = "SendingError" -> {GoBack}
      [] st.tag = "Done" -> {Proceed, GoBack}

(***************************************************************************)
(* my_steamworks.rs: atomics, Arc, park token, one-shot channel            *)
(***************************************************************************)
\* AtomicUsize::fetch_add(1) and fetch_sub(1): the new value, wrapping.
\* Mutant of FetchAdd: watch leaves the counter alone.
FetchAddSkipped(w) == w
FetchAdd(w) == IF w = UsizeMax THEN 0 ELSE w + 1
\* Mutant of FetchSub: unwatch leaves the counter alone.
FetchSubSkipped(w) == w
FetchSub(w) == IF w = 0 THEN UsizeMax ELSE w - 1

\* Arc::clone and the drop of one Arc: the new strong count.
ArcClone(n) == n + 1
\* Mutant of ArcDrop: a dropped handle leaks its reference.
ArcDropLeaks(n) == n
ArcDrop(n) == n - 1

\* Arc::try_unwrap succeeds exactly for the last reference.
\* Mutant of TryUnwrapOk: the worker returns whoever else holds the counter.
TryUnwrapIgnoresHolders(n) == n >= 1
TryUnwrapOk(n) == n = 1

\* The test of the worker's inner loop: watchers.load() > 0.
\* Mutants of LoopTest: an off-by-one test, and a test that accepts zero.
LoopTestOffByOne(w) == w > 1
LoopTestAcceptsZero(w) == w >= 0
LoopTest(w) == w > 0

\* What the native callback of each operation can be invoked with. The flag
\* of create_item and send_item (the terms must be accepted) is dropped by
\* Message::receive_item_id.
TermsFlags == {FALSE}
Titles == {"n"}
QueryResults ==
    [file_type : {"Community", "Other"}, consumer_app_id : {"this", "other"},
     title : Titles]
NativeResults(kind) ==
    {Err(e) : e \in NativeErrors}
    \cup (IF kind = "get_item_info"
          THEN {Ok(<<>>)} \cup {Ok(<<q>>) : q \in QueryResults}
          ELSE {Ok(<<id, terms>>) : id \in NativeIds, terms \in TermsFlags})

\* The value the callback closure sends for the native result res:
\* get_item_info sends res.and_then(|res| res.get(0).ok_or(NoMatch)),
\* create_item and send_item send res itself.
CallbackValue(kind, res) ==
    IF kind = "get_item_info" /\ IsOk(res)
    THEN IF Payload(res) = <<>> THEN Err("NoMatch") ELSE Ok(Payload(res)[1])
    ELSE res

\* oneshot::Sender::send: the value goes into the slot when the receiver is
\* alive and comes back as Err(value) when it was dropped.
\* Mutant of SenderSend: the value is stored whether or not anyone listens.
SenderSendBlind(rx_alive) == "ok"
SenderSend(rx_alive) == IF rx_alive THEN "ok" ELSE "err"

\* Mutant of AfterAwait: Canceled is reported as NoMatch.
AfterAwaitCancelAsNoMatch(kind, chan, slot, confirm) ==
    LET received == IF chan = "full" THEN Ok(Unwrap(slot)) ELSE Err("NoMatch")
        flat == IF IsOk(received) THEN Payload(received) ELSE received
    IN  IF kind # "get_item_info" \/ IsErr(flat) THEN flat
        ELSE LET res == Payload(flat)
             IN IF res.file_type # "Community" THEN Err("NoMatch")
                ELSE IF res.consumer_app_id # "this" /\ ~confirm THEN Err("Cancelled")
                ELSE Ok(ItemInfoFromQuery(res))

\* Mutant of AfterAwait: a declined confirmation is reported as NoMatch.
AfterAwaitDeclineAsNoMatch(kind, chan, slot, confirm) ==
    LET received == IF chan = "full" THEN Ok(Unwrap(slot)) ELSE Err("Cancelled")
        flat == IF IsOk(received) THEN Payload(received) ELSE received
    IN  IF kind # "get_item_info" \/ IsErr(flat) THEN flat
        ELSE LET res == Payload(flat)
             IN IF res.file_type # "Community" THEN Err("NoMatch")
                ELSE IF res.consumer_app_id # "this" /\ ~confirm THEN Err("NoMatch")
                ELSE Ok(ItemInfoFromQuery(res))

\* What follows rx.await in each operation. chan is the channel as the
\* receiver finds it, confirm the answer of confirm_dialog.
AfterAwait(kind, chan, slot, confirm) ==
    LET received == IF chan = "full" THEN Ok(Unwrap(slot)) ELSE Err("Cancelled")
        flat == IF IsOk(received) THEN Payload(received) ELSE received
    IN  IF kind # "get_item_info" \/ IsErr(flat) THEN flat
        ELSE LET res == Payload(flat)
             IN IF res.file_type # "Community" THEN Err("NoMatch")
                ELSE IF res.consumer_app_id # "this" /\ ~confirm THEN Err("Cancelled")
                ELSE Ok(ItemInfoFromQuery(res))

\* The message the future of an operation resolves to (Command::perform).
ResultMessage(kind, res) ==
    IF kind = "get_item_info" THEN receive_item_info(res) ELSE receive_item_id(res)

(***************************************************************************)
(* State.                                                                  *)
(***************************************************************************)
VARIABLES
    state,        \* Model.state
    running,      \* the application (Model, its WorkshopClient) is alive
    ops,          \* the operations launched so far, in launch order
    watchers,     \* SingleClientExecutor.watchers
    strong,       \* strong count of the Arc around watchers
    park_token,   \* the unpark token of the worker thread
    worker,       \* where the worker thread is in steamworks_worker
    loaded,       \* the value watchers.load() returned for the pump under way
    threads,      \* worker threads spawned by start_executor
    expired       \* timeouts of park_timeout that expired with watchers > 0
                  \* since watchers was last 0 or last loaded

vars == <<state, running, ops, watchers, strong, park_token, worker,
          loaded, threads, expired>>

\* A freshly launched operation: the future of get_item_info, create_item or
\* send_item, holding the WorkshopClient clone it was called on.
NewOp(cmd) ==
    [kind |-> cmd.kind, id |-> cmd.id, info |-> cmd.info,
     pc |-> "created",       \* created, watching, registering, awaiting,
                             \* finished, delivered, dropped, panicked
     guard |-> FALSE,        \* its CallbackSender (with the watcher) is alive
     cb |-> "none",          \* none, registered, running, returned, dropped
     chan |-> "none",        \* none, empty, full, cancelled, taken, closed
     slot |-> None,          \* the value in the channel
     passed |-> None,        \* the value its callback passed to send
     sent |-> "none",        \* what that send returned: none, ok, err
     got |-> None,           \* the value its receiver took from the channel
     res |-> None]           \* the result of the future

Ops == 1..Len(ops)
RxAlive(op) == op.pc \in {"watching", "registering", "awaiting"}
HoldsClient(op) == op.pc \in {"created", "watching", "registering", "awaiting"}

\* start_executor, WorkshopClient::init_app and Model::new: the counter and
\* the worker's copy of it, one worker thread, the state Initial("").
Init ==
    /\ state = Initial(<<>>)
    /\ running = TRUE
    /\ ops = <<>>
    /\ watchers = 0
    /\ strong = ArcClone(1)
    /\ park_token = FALSE
    /\ worker = "check"
    /\ loaded = 0
    /\ threads = 1
    /\ expired = 0

\* The expired count after a step that leaves the counter at w.
ExpiredAfter(w) == IF w = 0 THEN 0 ELSE expired

(***************************************************************************)
(* The UI thread: Model::update on one message.                            *)
(***************************************************************************)
\* self.client.clone() of a launch: a derived Clone, one more Arc reference
\* and no new thread.
ClientCloneThreads(n) == n

Handle(message, pick, ops1) ==
    LET r == update(state, message, pick)
    IN  /\ state' = r.state
        /\ IF r.cmd = CMDN
           THEN /\ ops' = ops1
                /\ UNCHANGED <<strong, threads>>
           ELSE /\ Len(ops1) < MaxOps
                /\ ops' = Append(ops1, NewOp(r.cmd[1]))
                /\ strong' = ArcClone(strong)
                /\ threads' = ClientCloneThreads(threads)
        /\ UNCHANGED <<running, watchers, park_token, worker, loaded, expired>>

\* The file dialog of a Browse message: a file or a directory, or nothing.
Picks(message) ==
    IF message.type = "EditItemData" /\ message.msg.type = "BrowsePreviewImage"
        THEN {None, Some("f")}
    ELSE IF message.type = "EditItemData" /\ message.msg.type = "BrowseTargetFolder"
        THEN {None, Some("d")}
    ELSE {None}

\* A widget of the current view emits a message.
UserEvent ==
    /\ running
    /\ \E message \in ViewMessages(state) : \E pick \in Picks(message) :
          Handle(message, pick, ops)

\* The future of operation o has resolved: its message reaches update.
Deliver(o) ==
    /\ running
    /\ ops[o].pc = "finished"
    /\ Handle(ResultMessage(ops[o].kind, Unwrap(ops[o].res)), None,
              [ops EXCEPT ![o].pc = "delivered"])

\* The window is closed: the Model and its WorkshopClient are dropped.
Shutdown ==
    /\ running
    /\ running' = FALSE
    /\ strong' = ArcDrop(strong)
    /\ UNCHANGED <<state, ops, watchers, park_token, worker, loaded,
                   threads, expired>>

(***************************************************************************)
(* Executor tasks: the futures of get_item_info, create_item, send_item.   *)
(***************************************************************************)
\* CallbackSender::get_channel up to the fetch_add of watch(): the channel,
\* a clone of the executor handle for the watcher, and the increment.
OpWatch(o) ==
    /\ ops[o].pc = "created"
    /\ ops' = [ops EXCEPT ![o].pc = "watching", ![o].guard = TRUE,
                          ![o].chan = "empty"]
    /\ strong' = ArcClone(strong)
    /\ watchers' = FetchAdd(watchers)
    /\ UNCHANGED <<state, running, park_token, worker, loaded,
                   threads, expired>>

\* The second half of watch(): self.handle.unpark().
OpUnpark(o) ==
    /\ ops[o].pc = "watching"
    /\ ops' = [ops EXCEPT ![o].pc = "registering"]
    /\ park_token' = TRUE
    /\ UNCHANGED <<state, running, watchers, strong, worker, loaded,
                   threads, expired>>

\* fetch / create_item / submit: the closure holding tx is handed to the SDK.
OpRegister(o) ==
    /\ ops[o].pc = "registering"
    /\ ops' = [ops EXCEPT ![o].pc = "awaiting", ![o].cb = "registered"]
    /\ UNCHANGED <<state, running, watchers, strong, park_token,
                   worker, loaded, threads, expired>>

\* query_item(..).expect("Failed to generate single item query."): the task
\* panics and unwinding drops tx (with its watcher), rx and the client.
OpQueryPanic(o) ==
    /\ ops[o].kind = "get_item_info"
    /\ ops[o].pc = "registering"
    /\ ops' = [ops EXCEPT ![o].pc = "panicked", ![o].guard = FALSE,
                          ![o].chan = "closed"]
    /\ watchers' = FetchSub(watchers)
    /\ strong' = ArcDrop(ArcDrop(strong))
    /\ expired' = ExpiredAfter(watchers')
    /\ UNCHANGED <<state, running, park_token, worker, loaded, threads>>

\* The confirm dialog is shown for a community item of another application.
ConfirmAnswers(op) ==
    IF /\ op.kind = "get_item_info"
       /\ op.chan = "full"
       /\ IsOk(Unwrap(op.slot))
       /\ Payload(Unwrap(op.slot)).file_type = "Community"
       /\ Payload(Unwrap(op.slot)).consumer_app_id # "this"
    THEN BOOLEAN ELSE {FALSE}

\* rx.await resolves, with the value sent or with Canceled, and the future
\* runs to its end; the client it was called on is dropped.
OpAwait(o) ==
    /\ ops[o].pc = "awaiting"
    /\ ops[o].chan \in {"full", "cancelled"}
    /\ \E confirm \in ConfirmAnswers(ops[o]) :
          ops' = [ops EXCEPT
                    ![o].pc = "finished",
                    ![o].res = Some(AfterAwait(ops[o].kind, ops[o].chan,
                                               ops[o].slot, confirm)),
                    ![o].got = ops[o].slot,
                    ![o].slot = None,
                    ![o].chan = "taken"]
    /\ strong' = ArcDrop(strong)
    /\ UNCHANGED <<state, running, watchers, park_token, worker,
                   loaded, threads, expired>>

\* After the shutdown the executor drops a suspended future: its receiver
\* (if it has one yet) and its client go with it.
FutureDrop(o) ==
    /\ ~running
    /\ ops[o].pc \in {"created", "awaiting"}
    /\ ops' = [ops EXCEPT ![o].pc = "dropped", ![o].slot = None,
                          ![o].chan = IF @ = "none" THEN "none" ELSE "closed"]
    /\ strong' = ArcDrop(strong)
    /\ UNCHANGED <<state, running, watchers, park_token, worker,
                   loaded, threads, expired>>

\* The SDK discards a registered closure without calling it: tx and its
\* watcher are dropped, and a receiver still waiting sees Canceled.
CallbackDrop(o) ==
    /\ ops[o].cb = "registered"
    /\ ops' = [ops EXCEPT ![o].cb = "dropped", ![o].guard = FALSE,
                          ![o].chan = IF @ = "empty" THEN "cancelled" ELSE @]
    /\ watchers' = FetchSub(watchers)
    /\ strong' = ArcDrop(strong)
    /\ expired' = ExpiredAfter(watchers')
    /\ UNCHANGED <<state, running, park_token, worker, loaded, threads>>

(***************************************************************************)
(* The worker thread: steamworks_worker.                                   *)
(***************************************************************************)
\* Where the worker goes after watchers.load() returned w.
AfterLoad(w) == IF LoopTest(w) THEN "pump" ELSE "park"

\* while watchers.load(Ordering::Acquire) > 0
WorkerLoad ==
    /\ worker = "check"
    /\ loaded' = watchers
    /\ worker' = AfterLoad(watchers)
    /\ expired' = IF worker' = "pump" THEN 0 ELSE expired
    /\ UNCHANGED <<state, running, ops, watchers, strong, park_token,
                   threads>>

\* Inside run_callbacks the SDK calls the closure of operation o with a
\* native result: the closure sends the value into its channel.
WorkerCallback(o) ==
    /\ worker = "pump"
    /\ ops[o].cb = "registered"
    /\ \E res \in NativeResults(ops[o].kind) :
          LET value == CallbackValue(ops[o].kind, res)
              sent == SenderSend(RxAlive(ops[o]))
          IN ops' = [ops EXCEPT
                       ![o].cb = "running",
                       ![o].passed = Some(value),
                       ![o].sent = sent,
                       ![o].slot = IF sent = "ok" THEN Some(value) ELSE @,
                       ![o].chan = IF sent = "ok" THEN "full" ELSE @]
    /\ worker' = "callback"
    /\ UNCHANGED <<state, running, watchers, strong, park_token,
                   loaded, threads, expired>>

\* The closure returns: send(self, ..) ends and drops the watcher.
WorkerCallbackReturn(o) ==
    /\ worker = "callback"
    /\ ops[o].cb = "running"
    /\ ops' = [ops EXCEPT ![o].cb = "returned", ![o].guard = FALSE]
    /\ watchers' = FetchSub(watchers)
    /\ strong' = ArcDrop(strong)
    /\ expired' = ExpiredAfter(watchers')
    /\ worker' = "pump"
    /\ UNCHANGED <<state, running, park_token, loaded, threads>>

\* run_callbacks returns.
WorkerPumpReturn ==
    /\ worker = "pump"
    /\ worker' = "check"
    /\ loaded' = 0
    /\ UNCHANGED <<state, running, ops, watchers, strong, park_token,
                   threads, expired>>

\* park_timeout(100ms) is entered: a token already there is consumed and
\* the call returns at once, otherwise the thread blocks.
WorkerPark ==
    /\ worker = "park"
    /\ IF park_token
       THEN worker' = "unwrap" /\ park_token' = FALSE
       ELSE worker' = "parked" /\ park_token' = park_token
    /\ UNCHANGED <<state, running, ops, watchers, strong, loaded,
                   threads, expired>>

\* The blocked worker is woken by an unpark.
WorkerWake ==
    /\ worker = "parked"
    /\ park_token
    /\ park_token' = FALSE
    /\ worker' = "unwrap"
    /\ UNCHANGED <<state, running, ops, watchers, strong, loaded,
                   threads, expired>>

\* The blocked worker's timeout expires.
WorkerTimeout ==
    /\ worker = "parked"
    /\ ~park_token
    /\ worker' = "unwrap"
    /\ expired' = IF watchers = 0 THEN 0
                  ELSE IF expired >= 2 THEN expired ELSE expired + 1
    /\ UNCHANGED <<state, running, ops, watchers, strong, park_token,
                   loaded, threads>>

\* match Arc::try_unwrap(watchers): return on Ok, loop on Err.
WorkerTryUnwrap ==
    /\ worker = "unwrap"
    /\ IF TryUnwrapOk(strong)
       THEN worker' = "returned" /\ strong' = ArcDrop(strong)
       ELSE worker' = "check" /\ strong' = strong
    /\ UNCHANGED <<state, running, ops, watchers, park_token, loaded,
                   threads, expired>>

Worker ==
    \/ WorkerLoad
    \/ \E o \in Ops : WorkerCallback(o)
    \/ \E o \in Ops : WorkerCallbackReturn(o)
    \/ WorkerPumpReturn
    \/ WorkerPark
    \/ WorkerWake
    \/ WorkerTimeout
    \/ WorkerTryUnwrap

(***************************************************************************)
(* The session under any caller: the three operations of WorkshopClient    *)
(* are public and may be called in any order by a holder of the client.    *)
(***************************************************************************)
CallInfo ==
    [name |-> "n", preview_image |-> "", target_folder |-> "d", change_notes |-> ""]
SessionCalls ==
    {PerformGetItemInfo(7)[1], PerformCreateItem[1], PerformSendItem(7, CallInfo)[1]}

\* client.clone().get_item_info(id), .create_item() or .send_item(id, info)
ClientCall ==
    /\ running
    /\ Len(ops) < MaxOps
    /\ \E cmd \in SessionCalls : ops' = Append(ops, NewOp(cmd))
    /\ strong' = ArcClone(strong)
    /\ threads' = ClientCloneThreads(threads)
    /\ UNCHANGED <<state, running, watchers, park_token, worker, loaded, expired>>

SessionNext ==
    \/ ClientCall
    \/ Shutdown
    \/ \E o \in Ops : OpWatch(o)
    \/ \E o \in Ops : OpUnpark(o)
    \/ \E o \in Ops : OpRegister(o)
    \/ \E o \in Ops : OpQueryPanic(o)
    \/ \E o \in Ops : OpAwait(o)
    \/ \E o \in Ops : FutureDrop(o)
    \/ \E o \in Ops : CallbackDrop(o)
    \/ Worker

\* The threads of my_steamworks.rs, step by step, under any caller.
SessionSpec == Init /\ [][SessionNext]_vars

\* The worker thread is scheduled and its timeout expires; a future whose
\* channel is ready is polled by the executor.
FairSessionSpec == SessionSpec /\ WF_vars(Worker)

(***************************************************************************)
(* Properties of the session (my_steamworks.rs).                           *)
(***************************************************************************)
LiveGuards == Cardinality({o \in Ops : ops[o].guard})
PendingCallbacks == Cardinality({o \in Ops : ops[o].cb = "registered"})
Unregistered == Cardinality({o \in Ops : ops[o].guard /\ ops[o].cb = "none"})
RunningCallbacks == Cardinality({o \in Ops : ops[o].cb = "running"})

\* C1, as stated: the counter equals the number of live guards, which equals
\* the number of registered callbacks neither invoked nor dropped.
C1_Original ==
    /\ watchers = LiveGuards
    /\ LiveGuards = PendingCallbacks

\* C1, amended: in every reachable state the counter equals the number of
\* live guards and never wraps below zero; the registered callbacks neither
\* invoked nor dropped are at most that many, the difference being the
\* operations that hold a guard but have not registered their callback yet
\* and the callback that is running (value sent, guard not yet released).
C1_GuardCount ==
    /\ watchers = LiveGuards
    /\ watchers <= Len(ops)
    /\ LiveGuards = PendingCallbacks + Unregistered + RunningCallbacks

\* C1 witness: one guard released and another one live.
C1_Witness ==
    \E o1 \in Ops, o2 \in Ops :
        /\ ops[o1].cb \in {"returned", "dropped"}
        /\ ops[o2].guard
        /\ watchers = 1

\* C2: no missed wake-up. Never more than one park timeout expires while the
\* counter stays above zero before the worker loads it again; if the counter
\* stays above zero the worker keeps pumping; if it stays zero the worker
\* stops pumping and parks (or has returned).
C2_NoMissedWakeup ==
    /\ [](expired <= 1)
    /\ (<>[](watchers > 0) => []<>(worker = "pump"))
    /\ (<>[](watchers = 0) =>
            /\ <>[](worker \notin {"pump", "callback"})
            /\ []<>(worker \in {"parked", "returned"}))

\* C2 witness: the race happened. The worker's timeout expired after an
\* operation incremented the counter and before that operation's unpark.
C2_Witness ==
    /\ expired = 1
    /\ worker = "unwrap"
    /\ \E o \in Ops : ops[o].pc = "watching"

\* C3: one worker thread, whatever is cloned; the worker is in run_callbacks
\* only after a load that returned more than zero; a load of zero is
\* followed by park_timeout, and the next load comes only after that park
\* or after a pump.
C3_Step ==
    /\ (worker = "check" /\ worker' # "check" /\ watchers = 0) => worker' = "park"
    /\ (worker = "check" /\ worker' = "pump") => watchers > 0
    /\ (worker # "check" /\ worker' = "check") => worker \in {"pump", "unwrap"}
    /\ (worker # "unwrap" /\ worker' = "unwrap") => worker \in {"park", "parked"}
    /\ (worker # "pump" /\ worker' = "pump") => worker \in {"check", "callback"}
C3_PumpOnlyWhenInterested ==
    /\ [](threads = 1)
    /\ [](worker \in {"pump", "callback"} => loaded > 0)
    /\ [][C3_Step]_vars

\* C3 witness: after a pump that ran a callback the counter is zero again
\* and the worker is blocked in park_timeout, with the client cloned.
C3_Witness ==
    /\ worker = "parked"
    /\ watchers = 0
    /\ \E o \in Ops : ops[o].cb = "returned"

\* C4: the worker returns only from a state where the counter is zero and it
\* holds the last reference: no guard, no client, no future holding a
\* client, and no callback registered or running.
NothingAlive ==
    /\ ~running
    /\ \A o \in Ops :
          /\ ~ops[o].guard
          /\ ~HoldsClient(ops[o])
          /\ ops[o].cb \notin {"registered", "running"}
C4_Step ==
    (worker # "returned" /\ worker' = "returned") =>
        (watchers = 0 /\ strong = 1 /\ NothingAlive)
C4_RetiresLast ==
    /\ [](worker = "returned" => (watchers = 0 /\ NothingAlive))
    /\ [][C4_Step]_vars

\* C4 witness: the worker has returned after operations ran.
C4_Witness ==
    /\ worker = "returned"
    /\ \E o \in Ops : ops[o].cb = "returned"

\* C5: once the client and every future are dropped and every guard is
\* released, the worker returns; nothing can unpark it then, so it is the
\* timeout of park_timeout that lets it see this.
AllDropped ==
    /\ ~running
    /\ \A o \in Ops : ~ops[o].guard /\ ~HoldsClient(ops[o])
C5_WorkerRetires == AllDropped ~> (worker = "returned")

\* C5 witness: the worker has returned although a future was dropped before
\* its callback ran.
C5_Witness ==
    /\ worker = "returned"
    /\ \E o \in Ops : ops[o].pc = "dropped" /\ ops[o].sent = "err"

\* C6: a receiver takes at most one value, the one its own callback passed
\* to send, and a callback sends once; a value sent after the receiver was
\* dropped reaches no one, nothing fails, and the guard is released when
\* the callback returns.
C6_State ==
    \A o \in Ops :
        /\ IsSome(ops[o].got) => (ops[o].got = ops[o].passed /\ ops[o].sent = "ok")
        /\ ops[o].chan = "full" => ops[o].slot = ops[o].passed
        /\ ops[o].pc \in {"dropped", "panicked"} =>
              (ops[o].slot = None /\ ops[o].chan # "full" /\ ops[o].got = None)
        /\ ops[o].cb = "returned" => (~ops[o].guard /\ ops[o].sent # "none")
        /\ ops[o].sent = "err" => ops[o].pc \in {"dropped", "panicked"}
C6_Step ==
    \A o \in Ops :
        /\ ops[o].sent # "none" =>
              (ops'[o].sent = ops[o].sent /\ ops'[o].passed = ops[o].passed)
        /\ IsSome(ops[o].got) => ops'[o].got = ops[o].got
C6_AtMostOnce == []C6_State /\ [][C6_Step]_vars

\* C6 witness: one callback sent into a dropped receiver and returned, and
\* another operation received its value.
C6_Witness ==
    \E o1 \in Ops, o2 \in Ops :
        /\ ops[o1].sent = "err" /\ ops[o1].cb = "returned"
        /\ IsSome(ops[o2].got)

\* C7: when the closure is dropped uncalled, its guard is released, the
\* waiting future can resolve (it does not hang), and it resolves to
\* Err(Cancelled), which reaches update as ReceiveSteamError(Cancelled).
C7_DroppedCallbackCancels ==
    \A o \in Ops :
        ops[o].cb = "dropped" =>
            /\ ~ops[o].guard
            /\ ops[o].pc # "panicked"
            /\ ops[o].pc = "awaiting" => ENABLED OpAwait(o)
            /\ ops[o].pc = "finished" =>
                  /\ ops[o].res = Some(Err("Cancelled"))
                  /\ ResultMessage(ops[o].kind, Unwrap(ops[o].res))
                        = ReceiveSteamError("Cancelled")

\* C7 witness: two operations of different kinds resolved after their
\* closures were dropped.
C7_Witness ==
    \E o1 \in Ops, o2 \in Ops :
        /\ ops[o1].kind # ops[o2].kind
        /\ ops[o1].cb = "dropped" /\ ops[o1].pc = "finished"
        /\ ops[o2].cb = "dropped" /\ ops[o2].pc = "finished"

(***************************************************************************)
(* The workflow as the UI thread sees it: each future launched by update   *)
(* resolves in one step to one of the results the operation can produce.   *)
(***************************************************************************)
\* The results get_item_info, create_item and send_item can resolve to: what
\* follows rx.await for a value sent by the callback, or for Canceled.
FutureResults(kind) ==
    {AfterAwait(kind, "full", Some(CallbackValue(kind, res)), confirm) :
        res \in NativeResults(kind), confirm \in BOOLEAN}
    \cup {AfterAwait(kind, "cancelled", None, FALSE)}

Resolve(o) ==
    /\ ops[o].pc = "created"
    /\ \E res \in FutureResults(ops[o].kind) :
          ops' = [ops EXCEPT ![o].pc = "finished", ![o].res = Some(res)]
    /\ strong' = ArcDrop(strong)
    /\ UNCHANGED <<state, running, watchers, park_token, worker, loaded,
                   threads, expired>>

Next ==
    \/ UserEvent
    \/ \E o \in Ops : Resolve(o)
    \/ \E o \in Ops : Deliver(o)

Spec == Init /\ [][Next]_vars

(***************************************************************************)
(* Properties of the workflow (main.rs).                                   *)
(***************************************************************************)
Waiting == {"ExistingIdSearching", "CreatingItem", "SendingItem"}
Outstanding(o) == ops[o].pc \notin {"delivered", "dropped", "panicked"}
OutstandingOps == {o \in Ops : Outstanding(o)}
LastOp == ops[Len(ops)]

C8_State ==
    /\ (state.tag = "ExistingIdSearching" /\ state.err = None) =>
          /\ Len(ops) >= 1 /\ Outstanding(Len(ops))
          /\ LastOp.kind = "get_item_info" /\ LastOp.id = Some(state.id)
    /\ state.tag = "CreatingItem" =>
          /\ Len(ops) >= 1 /\ Outstanding(Len(ops))
          /\ LastOp.kind = "create_item"
    /\ state.tag = "SendingItem" =>
          /\ Len(ops) >= 1
          /\ LastOp.kind = "send_item" /\ LastOp.id = Some(state.id)
          /\ LastOp.info = Some(state.info)
C8_Step ==
    Len(ops') # Len(ops) =>
        /\ Len(ops') = Len(ops) + 1
        /\ state.tag \in {"Initial", "ItemForm", "CreatingItem"}
        /\ state'.tag \in Waiting
        /\ state'.tag # state.tag
        /\ state.tag = "CreatingItem" =>
              \E o \in Ops : /\ ops[o].kind = "create_item"
                             /\ ops[o].pc = "finished"
                             /\ ops'[o].pc = "delivered"
C9_Case ==
    /\ state.tag = "Initial"
    /\ state.text # <<>>
    /\ IsErr(ParseU64(state.text))
C9_Original ==
    [][(C9_Case /\ Handle(Proceed, None, ops)) => (state' = state /\ ops' = ops)]_vars

\* C10: in Initial(text), Proceed with a text that parses to id moves to
\* ExistingIdSearching(id, None) and launches one lookup, for id; Proceed
\* with the empty text moves to ItemForm(None, blank draft) and launches
\* nothing; SetExistingId(new) moves to Initial(new) and launches nothing.
C10_Step ==
    /\ \A id \in NativeIds :
          (state = Initial(U64ToString(id)) /\ Handle(Proceed, None, ops)) =>
              /\ state' = ExistingIdSearching(id, None)
              /\ ops' = Append(ops, NewOp([kind |-> "get_item_info",
                                           id |-> Some(id), info |-> None]))
    /\ (state.tag = "Initial" /\ Handle(Proceed, None, ops)
          /\ IsOk(ParseU64(state.text))) =>
              /\ state'.tag = "ExistingIdSearching"
              /\ U64ToString(state'.id) = state.text
              /\ Len(ops') = Len(ops) + 1
    /\ (state = Initial(<<>>) /\ Handle(Proceed, None, ops)) =>
              /\ state' = ItemForm(None, ItemInfoStateDefault)
              /\ ops' = ops
    /\ \A text \in TypedTexts :
          (state.tag = "Initial" /\ Handle(SetExistingId(text), None, ops)) =>
              /\ state' = Initial(text)
              /\ ops' = ops
C10_InitialTransitions == [][C10_Step]_vars

\* C10 witness: ExistingIdSearching(7, None) with the lookup for 7 launched.
C10_Witness ==
    /\ state = ExistingIdSearching(7, None)
    /\ Len(ops) >= 1
    /\ LastOp.kind = "get_item_info"
    /\ LastOp.id = Some(7)
    /\ LastOp.pc = "created"

\* The result of operation o reaches update in this step, as message Incoming(o).
Delivers(o) == ops[o].pc = "finished" /\ ops'[o].pc = "delivered"
Incoming(o) == ResultMessage(ops[o].kind, Unwrap(ops[o].res))

\* C11: in ExistingIdSearching(id, _), a found item moves to
\* ItemForm(Some(id), draft of the found item), a failed lookup with error E
\* moves to ExistingIdSearching(id, Some(E)), GoBack moves to
\* Initial(id.to_string()), and Proceed from that state leads back to
\* ExistingIdSearching(id, None) with a lookup for id: the text of an id
\* parses back to it.
C11_RoundTrip == \A id \in 0..MaxId : ParseU64(U64ToString(id)) = Ok(id)
C11_Step ==
    /\ \A o \in Ops :
          (Delivers(o) /\ state.tag = "ExistingIdSearching") =>
              /\ Incoming(o).type = "ReceiveFoundItemInfo" =>
                    /\ state' = ItemForm(Some(state.id),
                                         ItemInfoStateFrom(Payload(Unwrap(ops[o].res))))
                    /\ state'.draft.name \in Titles
                    /\ Len(ops') = Len(ops)
              /\ Incoming(o).type = "ReceiveSteamError" =>
                    /\ state' = ExistingIdSearching(state.id,
                                                    Some(Payload(Unwrap(ops[o].res))))
                    /\ Len(ops') = Len(ops)
    /\ (state.tag = "ExistingIdSearching" /\ Handle(GoBack, None, ops)) =>
          /\ state' = Initial(U64ToString(state.id))
          /\ ops' = ops
          /\ update(state', Proceed, None)
                = Upd(ExistingIdSearching(state.id, None), PerformGetItemInfo(state.id))
C11_SearchingTransitions == []C11_RoundTrip /\ [][C11_Step]_vars

\* C11 witness: the round trip was made. A lookup for 7 failed, GoBack led
\* to Initial("7"), and Proceed launched a second lookup for 7.
C11_Witness ==
    /\ state = ExistingIdSearching(7, None)
    /\ Len(ops) = 2
    /\ ops[1].kind = "get_item_info" /\ ops[1].pc = "delivered"
    /\ IsErr(Unwrap(ops[1].res))
    /\ ops[2].kind = "get_item_info" /\ ops[2].id = Some(7)

(***************************************************************************)
(* Model::update as a function: any state, any message.                    *)
(***************************************************************************)
Drafts ==
    [name : Names, preview_image : {FileField(p) : p \in Paths},
     target_folder : {FileField(p) : p \in Paths}, change_notes : Notes]
\* The ItemInfo values a state can hold: those ItemInfo::try_from returned.
Infos == {Payload(ItemInfoTryFrom(d)) : d \in {x \in Drafts : IsOk(ItemInfoTryFrom(x))}}
FoundInfos == {ItemInfoFromQuery(q) : q \in QueryResults}
MaybeErrors == {None} \cup {Some(e) : e \in SteamErrors}
MaybeIds == {None} \cup {Some(id) : id \in NativeIds}

ModelStates ==
    {Initial(t) : t \in TypedTexts \cup {U64ToString(id) : id \in NativeIds}}
    \cup {ExistingIdSearching(id, e) : id \in NativeIds, e \in MaybeErrors}
    \cup {ItemForm(m, d) : m \in MaybeIds, d \in Drafts}
    \cup {CreatingItem(i) : i \in Infos}
    \cup {CreationError(i, e) : i \in Infos, e \in SteamErrors}
    \cup {SendingItem(id, i) : id \in NativeIds, i \in Infos}
    \cup {SendingError(id, i, e) : id \in NativeIds, i \in Infos, e \in SteamErrors}
    \cup {Done(id) : id \in NativeIds}

Messages ==
    {SetExistingId(t) : t \in TypedTexts}
    \cup {EditItemData(m) : m \in ItemInfoMessages}
    \cup {ReceiveFoundItemInfo(i) : i \in FoundInfos}
    \cup {ReceiveItemId(id) : id \in NativeIds}
    \cup {ReceiveSteamError(e) : e \in SteamErrors}
    \cup {Proceed, GoBack, TermsLinkPressed}

\* Any state of the workflow, with no operation launched yet.
UpdateInit ==
    /\ state \in ModelStates
    /\ running = TRUE
    /\ ops = <<>>
    /\ watchers = 0
    /\ strong = ArcClone(1)
    /\ park_token = FALSE
    /\ worker = "check"
    /\ loaded = 0
    /\ threads = 1
    /\ expired = 0

\* update is called with any message.
ApplyUpdate ==
    /\ running
    /\ \E message \in Messages : \E pick \in Picks(message) :
          Handle(message, pick, ops)

UpdateSpec == UpdateInit /\ [][ApplyUpdate]_vars

\* C12: in ItemForm(maybe_id, draft) with a draft ItemInfo::try_from rejects,
\* Proceed leaves the state as it is and returns no command; an operation is
\* launched from ItemForm only for a draft try_from accepts, and the info of
\* every send_item launched is one try_from accepts.
C12_Case == state.tag = "ItemForm" /\ IsErr(ItemInfoTryFrom(state.draft))
C12_State ==
    /\ C12_Case =>
          /\ update(state, Proceed, None).state = state
          /\ update(state, Proceed, None).cmd = CMDN
    /\ \A o \in Ops :
          ops[o].kind = "send_item" =>
              ItemInfoTryFrom(ItemInfoStateFrom(Unwrap(ops[o].info)))
                  = Ok(Unwrap(ops[o].info))
C12_Step ==
    /\ (C12_Case /\ Handle(Proceed, None, ops)) => (state' = state /\ ops' = ops)
    /\ (state.tag = "ItemForm" /\ Len(ops') # Len(ops)) =>
          IsOk(ItemInfoTryFrom(state.draft))
C12_ValidationStaysLocal == []C12_State /\ [][C12_Step]_vars

\* C12 witness: a form for item 7 whose draft was edited into one with a
\* name and a target folder that does not exist, after an earlier launch;
\* update can take Proceed there, and doing so changes nothing.
C12_Witness ==
    /\ state.tag = "ItemForm"
    /\ state.maybe_id = Some(7)
    /\ ItemInfoTryFrom(state.draft) = Err("Target folder does not exist.")
    /\ Len(ops) = 1
    /\ ENABLED (Handle(Proceed, None, ops) /\ state' = state /\ ops' = ops)

\* C13: in ItemForm(maybe_id, draft) with a draft try_from accepts as info,
\* Proceed moves to SendingItem(id, info) and launches one send_item(id, info)
\* when maybe_id is Some(id), and otherwise moves to CreatingItem(info) and
\* launches one create_item; a create_item is launched by no other step.
C13_Step ==
    /\ (/\ state.tag = "ItemForm"
        /\ IsOk(ItemInfoTryFrom(state.draft))
        /\ Handle(Proceed, None, ops)) =>
          LET info == [name |-> state.draft.name,
                       preview_image |-> state.draft.preview_image.path,
                       target_folder |-> state.draft.target_folder.path,
                       change_notes |-> state.draft.change_notes]
          IN  IF state.maybe_id # None
              THEN /\ state' = SendingItem(state.maybe_id[1], info)
                   /\ ops' = Append(ops, NewOp([kind |-> "send_item",
                                                id |-> state.maybe_id,
                                                info |-> Some(info)]))
              ELSE /\ state' = CreatingItem(info)
                   /\ ops' = Append(ops, NewOp([kind |-> "create_item",
                                                id |-> None, info |-> None]))
    /\ (Len(ops') # Len(ops) /\ ops'[Len(ops')].kind = "create_item") =>
          /\ state.tag = "ItemForm"
          /\ state.maybe_id = None
          /\ state'.tag = "CreatingItem"
C13_FormProceeds == [][C13_Step]_vars

\* C13 witness: item 7 was found, its form filled in, and Proceed launched
\* the send for 7 with the info of the form.
C13_Witness ==
    /\ state.tag = "SendingItem"
    /\ state.id = 7
    /\ Len(ops) = 2
    /\ ops[1].kind = "get_item_info" /\ ops[1].pc = "delivered"
    /\ ops[2] = NewOp([kind |-> "send_item", id |-> Some(7),
                       info |-> Some(state.info)])

\* C14: in CreatingItem(info), the create's success with id moves to
\* SendingItem(id, info), info unchanged, and launches send_item(id, info);
\* the create's failure with error E moves to CreationError(info, E) and
\* launches nothing.
C14_Step ==
    \A o \in Ops :
        (Delivers(o) /\ state.tag = "CreatingItem" /\ ops[o].kind = "create_item") =>
            LET res == Unwrap(ops[o].res)
                rest == [ops EXCEPT ![o].pc = "delivered"]
            IN  /\ IsOk(res) =>
                      /\ state' = SendingItem(Payload(res)[1], state.info)
                      /\ ops' = Append(rest, NewOp([kind |-> "send_item",
                                                    id |-> Some(Payload(res)[1]),
                                                    info |-> Some(state.info)]))
                /\ IsErr(res) =>
                      /\ state' = CreationError(state.info, Payload(res))
                      /\ ops' = rest
C14_CreatingTransitions == [][C14_Step]_vars

\* C14 witness: the create returned id 8 and the send for 8 was launched
\* with the info of the form, change notes included.
C14_Witness ==
    /\ state.tag = "SendingItem"
    /\ state.id = 8
    /\ state.info.change_notes = "c"
    /\ Len(ops) = 2
    /\ ops[1].kind = "create_item" /\ ops[1].pc = "delivered"
    /\ ops[2] = NewOp([kind |-> "send_item", id |-> Some(8),
                       info |-> Some(state.info)])

\* C15: in SendingItem(id, info), the send's success echoing id moves to
\* Done(id); its success echoing another id leaves the state as it is; its
\* failure with error E moves to SendingError(id, info, E). Nothing is
\* launched in any of the three.
C15_Step ==
    \A o \in Ops :
        (Delivers(o) /\ state.tag = "SendingItem" /\ ops[o].kind = "send_item") =>
            LET res == Unwrap(ops[o].res)
            IN  /\ (IsOk(res) /\ Payload(res)[1] = state.id) =>
                      state' = [tag |-> "Done", id |-> state.id]
                /\ (IsOk(res) /\ Payload(res)[1] # state.id) => state' = state
                /\ IsErr(res) =>
                      state' = [tag |-> "SendingError", id |-> state.id,
                                info |-> state.info, err |-> Payload(res)]
                /\ ops' = [ops EXCEPT ![o].pc = "delivered"]
C15_SendingTransitions == [][C15_Step]_vars

\* C15 witness: the send for 7 came back with id 8 and the state is still
\* SendingItem(7, info).
C15_Witness ==
    /\ state.tag = "SendingItem"
    /\ state.id = 7
    /\ Len(ops) = 2
    /\ ops[2].kind = "send_item" /\ ops[2].pc = "delivered"
    /\ ops[2].info = Some(state.info)
    /\ IsOk(Unwrap(ops[2].res)) /\ Payload(Unwrap(ops[2].res))[1] = 8

\* C16: every error state offers GoBack, which launches nothing and keeps the
\* user's data: CreationError(info, _) goes to ItemForm(None, draft of info),
\* SendingError(id, info, _) to ItemForm(Some(id), draft of info),
\* ExistingIdSearching(id, Some(_)) to Initial(id.to_string()); the draft of
\* info is accepted by try_from as info itself, so Proceed right after the
\* GoBack attempts the same create or the same send again.
DraftOf(info) ==
    [name |-> info.name, preview_image |-> [path |-> info.preview_image],
     target_folder |-> [path |-> info.target_folder],
     change_notes |-> info.change_notes]
ErrorState ==
    \/ state.tag \in {"CreationError", "SendingError"}
    \/ state.tag = "ExistingIdSearching" /\ state.err # None
C16_State == ErrorState => GoBack \in ViewMessages(state)
C16_Step ==
    /\ (state.tag = "CreationError" /\ Handle(GoBack, None, ops)) =>
          /\ state' = ItemForm(None, DraftOf(state.info))
          /\ ops' = ops
          /\ ItemInfoTryFrom(state'.draft) = Ok(state.info)
          /\ update(state', Proceed, None).state = CreatingItem(state.info)
          /\ update(state', Proceed, None).cmd = PerformCreateItem
    /\ (state.tag = "SendingError" /\ Handle(GoBack, None, ops)) =>
          /\ state' = ItemForm(Some(state.id), DraftOf(state.info))
          /\ ops' = ops
          /\ ItemInfoTryFrom(state'.draft) = Ok(state.info)
          /\ update(state', Proceed, None).state = SendingItem(state.id, state.info)
          /\ update(state', Proceed, None).cmd = PerformSendItem(state.id, state.info)
    /\ (state.tag = "ExistingIdSearching" /\ state.err # None
          /\ Handle(GoBack, None, ops)) =>
          /\ state' = Initial(U64ToString(state.id))
          /\ ParseU64(state'.text) = Ok(state.id)
          /\ ops' = ops
C16_ErrorsGoBack == []C16_State /\ [][C16_Step]_vars

\* C16 witness: the send for item 7, with a preview image, failed, and
\* GoBack from SendingError led to the form holding what was sent.
C16_Witness ==
    /\ state.tag = "ItemForm"
    /\ state.maybe_id = Some(7)
    /\ Len(ops) = 2
    /\ ops[2].kind = "send_item" /\ ops[2].pc = "delivered"
    /\ IsErr(Unwrap(ops[2].res))
    /\ state.draft = DraftOf(Unwrap(ops[2].info))
    /\ state.draft.preview_image.path = "f"

\* C17: in every state of the workflow, TermsLinkPressed leaves the state as
\* it is and launches nothing; all update does is ask the overlay to open
\* the workshop legal agreement.
C17_State ==
    LET r == update(state, TermsLinkPressed, None)
    IN  /\ r.state = state
        /\ r.cmd = CMDN
        /\ r.url = Some("workshoplegalagreement")
C17_Step == Handle(TermsLinkPressed, None, ops) => UNCHANGED vars
C17_TermsLinkOnlyOpens == []C17_State /\ [][C17_Step]_vars

\* C17 witness: a waiting state entered by a launch, where the view shows no
\* terms button; update can take TermsLinkPressed there and nothing changes.
C17_Witness ==
    /\ state.tag = "SendingItem"
    /\ Len(ops) = 1
    /\ ops[1].kind = "send_item"
    /\ update(state, TermsLinkPressed, None).url = Some("workshoplegalagreement")
    /\ ENABLED (Handle(TermsLinkPressed, None, ops) /\ UNCHANGED vars)

\* C18: the send launched from ItemForm(Some(id), draft) by Proceed, when it
\* succeeds echoing id, leads to Done(id); in Done(id), Proceed changes
\* nothing and asks the overlay for the page of item id, and GoBack leads to
\* Initial(""), the state the application starts in, launching nothing.
C18_State ==
    state.tag = "Done" =>
        LET r == update(state, Proceed, None)
        IN  /\ r.state = state
            /\ r.cmd = CMDN
            /\ r.url = Some(<<"CommunityFilePage", state.id>>)
C18_Step ==
    /\ (state.tag = "ItemForm" /\ state.maybe_id # None
          /\ Len(ops') = Len(ops) + 1) =>
          /\ state'.tag = "SendingItem"
          /\ state'.id = state.maybe_id[1]
          /\ ops'[Len(ops')].kind = "send_item"
    /\ \A o \in Ops :
          (/\ Delivers(o)
           /\ o = Len(ops)
           /\ state.tag = "SendingItem"
           /\ ops[o].kind = "send_item"
           /\ IsOk(Unwrap(ops[o].res))
           /\ Payload(Unwrap(ops[o].res))[1] = state.id) =>
              /\ ops[o].id = Some(state.id)
              /\ state' = [tag |-> "Done", id |-> state.id]
    /\ (state.tag = "Done" /\ Handle(Proceed, None, ops)) => UNCHANGED vars
    /\ (state.tag = "Done" /\ Handle(GoBack, None, ops)) =>
          /\ state' = [tag |-> "Initial", text |-> <<>>]
          /\ ops' = ops
C18_RoundTripAndRestart == []C18_State /\ [][C18_Step]_vars

\* C18 witness: item 7 was found, sent from its form and echoed, and GoBack
\* from Done(7) led to the state the application starts in.
C18_Witness ==
    /\ state = Initial(<<>>)
    /\ Len(ops) = 2
    /\ ops[1].kind = "get_item_info" /\ ops[1].pc = "delivered"
    /\ ops[2].kind = "send_item" /\ ops[2].pc = "delivered"
    /\ ops[2].id = Some(7)
    /\ Unwrap(ops[2].res) = Ok(<<7, FALSE>>)

\* C19, as stated: the result of a lookup abandoned by GoBack (another
\* operation was launched after it, before its result was delivered) changes
\* no state when it is delivered, whatever state the workflow is in then.
Abandoned(o) == ops[o].kind = "get_item_info" /\ o < Len(ops)
C19_Original ==
    [][\A o \in Ops : (Delivers(o) /\ Abandoned(o)) => state' = state]_vars

\* C20, as stated: in each waiting state (ExistingIdSearching with no error,
\* CreatingItem, SendingItem) the view offers GoBack and update takes it to
\* an editable state (Initial or ItemForm).
C20_Original ==
    (state.tag \in Waiting /\ (state.tag = "ExistingIdSearching" => state.err = None)) =>
        /\ GoBack \in ViewMessages(state)
        /\ update(state, GoBack, None).state.tag \in {"Initial", "ItemForm"}

(***************************************************************************)
(* Properties of the draft validation (item_info.rs).                      *)
(***************************************************************************)
\* A directory is a path that exists and is not a file.
IsDirectory(p) == PathExists(p) /\ ~PathIsFile(p)
\* The rule an error message of try_from belongs to.
ErrorRule(msg) ==
    CASE msg = "Name cannot be empty." -> "name"
      [] msg \in {"Preview image does not exist.", "Preview image is not a file."}
            -> "preview"
      [] msg \in {"Target folder cannot be empty.", "Target folder does not exist."}
            -> "target"
\* name, preview, target, in this order; "ok" when no rule is violated.
FirstViolatedRule(d) ==
    IF d.name = "" THEN "name"
    ELSE IF ~(d.preview_image.path = "" \/ PathIsFile(d.preview_image.path))
        THEN "preview"
    ELSE IF ~IsDirectory(d.target_folder.path) THEN "target"
    ELSE "ok"
Outcome(r) == IF IsOk(r) THEN "ok" ELSE ErrorRule(Payload(r))

\* C21, as stated: try_from returns Ok exactly when the name is not empty,
\* the preview is empty or an existing file, and the target is an existing
\* directory; otherwise it returns the error of the first violated rule in
\* the order name, preview, target.
C21_Original ==
    state.tag = "ItemForm" =>
        Outcome(ItemInfoTryFrom(state.draft)) = FirstViolatedRule(state.draft)

\* C22, as stated: the ItemInfo of CreatingItem, CreationError, SendingItem
\* and SendingError, and the ItemInfo of every send_item launched, has a name
\* that is not empty, a preview that is empty or an existing file, and a
\* target that is an existing directory.
CarriesInfo == state.tag \in {"CreatingItem", "CreationError", "SendingItem", "SendingError"}
C22_Original ==
    /\ CarriesInfo => FirstViolatedRule(DraftOf(state.info)) = "ok"
    /\ \A o \in Ops :
          ops[o].kind = "send_item" =>
              FirstViolatedRule(DraftOf(Unwrap(ops[o].info))) = "ok"

(***************************************************************************)
(* Properties of the lookup (get_item_info after rx.await).                *)
(***************************************************************************)
\* A lookup whose callback delivered an item, and that item.
GotItem(o) ==
    /\ ops[o].kind = "get_item_info"
    /\ ops[o].got # None
    /\ IsOk(ops[o].got[1])
Item(o) == Payload(ops[o].got[1])
HoldsItem(o) ==
    /\ ops[o].kind = "get_item_info"
    /\ ops[o].pc = "awaiting"
    /\ ops[o].chan = "full"
    /\ IsOk(ops[o].slot[1])
Found(q) ==
    Ok([name |-> q.title, preview_image |-> "", target_folder |-> "",
        change_notes |-> ""])

\* C23: a delivered item that is not a community file makes the lookup fail;
\* a community item of another application gives success when the user
\* confirms and Err(Cancelled) when they decline, and both can happen; a
\* community item of this application gives success and no dialog is shown;
\* a failed lookup reaches update as ReceiveSteamError(error), which takes
\* ExistingIdSearching(id, None) to ExistingIdSearching(id, Some(error)).
C23_State ==
    \A o \in Ops :
        /\ (GotItem(o) /\ ops[o].pc = "finished") =>
              LET q == Item(o)
                  res == ops[o].res[1]
              IN  /\ q.file_type # "Community" => IsErr(res)
                  /\ (q.file_type = "Community" /\ q.consumer_app_id = "this") =>
                        res = Found(q)
                  /\ (q.file_type = "Community" /\ q.consumer_app_id # "this") =>
                        res \in {Found(q), Err("Cancelled")}
        /\ (ops[o].kind = "get_item_info" /\ ops[o].pc = "finished"
              /\ IsErr(ops[o].res[1])) =>
              update(ExistingIdSearching(ops[o].id[1], None),
                     ResultMessage(ops[o].kind, ops[o].res[1]), None).state
                = [tag |-> "ExistingIdSearching", id |-> ops[o].id[1],
                   err |-> Some(Payload(ops[o].res[1]))]
        /\ HoldsItem(o) =>
              LET q == Payload(ops[o].slot[1])
                  asks == q.file_type = "Community" /\ q.consumer_app_id # "this"
              IN  /\ ConfirmAnswers(ops[o]) = (IF asks THEN BOOLEAN ELSE {FALSE})
                  /\ asks =>
                        /\ ENABLED (OpAwait(o) /\ ops'[o].res = Some(Found(q)))
                        /\ ENABLED (OpAwait(o) /\ ops'[o].res = Some(Err("Cancelled")))
C23_LookupFilter == C23_State

\* C23 witness: the callback delivered a community item of another
\* application and the lookup ended with Err(Cancelled): the user declined.
C23_Witness ==
    \E o \in Ops :
        /\ GotItem(o)
        /\ ops[o].pc = "finished"
        /\ Item(o).file_type = "Community"
        /\ Item(o).consumer_app_id = "other"
        /\ ops[o].res = Some(Err("Cancelled"))

(***************************************************************************)
(* No waiter is stranded.                                                  *)
(***************************************************************************)
AwaitsCallback(o) == ops[o].pc = "awaiting" /\ ops[o].cb = "registered"
Released(o) == ops[o].guard /\ ~ops'[o].guard

\* C24, as stated: while a future is awaiting and its callback is registered
\* and neither invoked nor dropped, the counter is at least 1 and the worker
\* has not returned; the guard exists before the callback is registered and
\* is released only after the callback has sent its result.
C24_State ==
    \A o \in Ops :
        /\ AwaitsCallback(o) => (watchers >= 1 /\ worker # "returned")
        /\ ops[o].cb = "registered" => ops[o].guard
C24_Original ==
    /\ []C24_State
    /\ [][\A o \in Ops :
            /\ (ops[o].cb = "none" /\ ops'[o].cb = "registered") => ops[o].guard
            /\ Released(o) => ops[o].sent # "none"]_vars

\* C24, amended: while a future is awaiting and its callback is registered
\* and neither invoked nor dropped, the counter is at least 1, the guard is
\* alive and the worker has not returned; the guard exists before the
\* callback is registered; it is released when the invoked callback returns
\* from send, or without any send when the closure is dropped uncalled or
\* when building the query panics, and then the channel is cancelled or
\* closed, never left empty.
C24_Step ==
    \A o \in Ops :
        /\ (ops[o].cb = "none" /\ ops'[o].cb = "registered") => ops[o].guard
        /\ Released(o) =>
              \/ /\ ops[o].cb = "running" /\ ops'[o].cb = "returned"
                 /\ ops[o].sent # "none"
              \/ /\ ops[o].cb = "registered" /\ ops'[o].cb = "dropped"
                 /\ ops[o].sent = "none"
                 /\ ops'[o].chan # "empty"
              \/ /\ ops[o].cb = "none" /\ ops'[o].pc = "panicked"
                 /\ ops'[o].chan = "closed"
C24_NoStrandedWaiter == []C24_State /\ [][C24_Step]_vars

\* C24 witness: one future is awaiting with its callback registered and the
\* counter at 1, after the closure of another was dropped uncalled.
C24_Witness ==
    \E o1 \in Ops, o2 \in Ops :
        /\ AwaitsCallback(o1)
        /\ watchers = 1
        /\ ops[o2].cb = "dropped"
        /\ ops[o2].sent = "none"
        /\ ~ops[o2].guard

(***************************************************************************)
(* The workflow with a create left in flight. The run so far: a lookup is  *)
(* abandoned by GoBack; a form is filled in and its create launched; the   *)
(* lookup's error arrives in CreatingItem and moves to CreationError while *)
(* the create's result is still outstanding; GoBack, GoBack, and a second  *)
(* lookup finds an item. The two lookups, already delivered, are left out  *)
(* of ops.                                                                 *)
(***************************************************************************)
LateInit ==
    /\ state \in {ItemForm(Some(id), ItemInfoStateFrom(i)) :
                      id \in NativeIds, i \in FoundInfos}
    /\ running = TRUE
    /\ ops = <<NewOp(PerformCreateItem[1])>>
    /\ watchers = 0
    /\ strong = ArcClone(ArcClone(1))
    /\ park_token = FALSE
    /\ worker = "check"
    /\ loaded = 0
    /\ threads = 1
    /\ expired = 0

LateSpec == LateInit /\ [][Next]_vars

\* C25, as stated: Done(id) is entered only from SendingItem(id, _), and in
\* Done(id) a send_item launched for id has reported success echoing id.
SendSucceeded(id) ==
    \E o \in Ops :
        /\ ops[o].kind = "send_item"
        /\ ops[o].id = Some(id)
        /\ ops[o].pc = "delivered"
        /\ ops[o].res = Some(Ok(<<id, FALSE>>))
C25_Original ==
    /\ [](state.tag = "Done" => SendSucceeded(state.id))
    /\ [][(state.tag # "Done" /\ state'.tag = "Done") =>
              (state.tag = "SendingItem" /\ state.id = state'.id)]_vars

\* C26: frame of Model::update. In a state, a message other than the ones
\* the workflow handles there (and other than TermsLinkPressed) leaves the
\* state as it is, returns no command and opens no url; a command is returned
\* only for Proceed in Initial or ItemForm and for ReceiveItemId in
\* CreatingItem, and always with the move into the waiting state of the
\* operation launched: ExistingIdSearching for get_item_info, CreatingItem
\* for create_item, SendingItem for send_item.
Handled(tag) ==
    CASE tag = "Initial" -> {"SetExistingId", "Proceed"}
      [] tag = "ExistingIdSearching" ->
            {"ReceiveFoundItemInfo", "ReceiveSteamError", "GoBack"}
      [] tag = "ItemForm" -> {"EditItemData", "Proceed", "GoBack"}
      [] tag = "CreatingItem" -> {"ReceiveItemId", "ReceiveSteamError"}
      [] tag = "CreationError" -> {"GoBack"}
      [] tag = "SendingItem" -> {"ReceiveItemId", "ReceiveSteamError"}
      [] tag = "SendingError" -> {"GoBack"}
      [] tag = "Done" -> {"Proceed", "GoBack"}
WaitingState(kind) ==
    CASE kind = "get_item_info" -> "ExistingIdSearching"
      [] kind = "create_item" -> "CreatingItem"
      [] kind = "send_item" -> "SendingItem"
Launching(tag, type) ==
    \/ tag \in {"Initial", "ItemForm"} /\ type = "Proceed"
    \/ tag = "CreatingItem" /\ type = "ReceiveItemId"
C26_State ==
    \A message \in Messages : \A pick \in Picks(message) :
        LET r == update(state, message, pick)
        IN  /\ message.type \notin Handled(state.tag) \cup {"TermsLinkPressed"} =>
                  r = Upd(state, CMDN)
            /\ r.cmd # CMDN =>
                  /\ Launching(state.tag, message.type)
                  /\ r.state.tag = WaitingState(r.cmd[1].kind)
                  /\ r.state # state
C26_Step ==
    Len(ops') # Len(ops) =>
        /\ ops' = Append(ops, ops'[Len(ops')])
        /\ state.tag \in {"Initial", "ItemForm", "CreatingItem"}
        /\ state'.tag = WaitingState(ops'[Len(ops')].kind)
        /\ state' # state
C26_Frame == []C26_State /\ [][C26_Step]_vars
C26_Witness ==
    /\ state.tag = "SendingItem"
    /\ Len(ops) = 1
    /\ ops[1].kind = "send_item"
    /\ ENABLED (Handle(GoBack, None, ops) /\ state' = state /\ ops' = ops)

====
